---- MODULE Spec2Model ----
(***************************************************************************)
(* The catalog synchronisation of sync-server-app: the Remix action of     *)
(* app/routes/app._index.tsx, the sync engine of app/shopify.ts            *)
(* (syncProductsWithShopify and the functions it calls) and the remote     *)
(* platform they talk to.                                                  *)
(*                                                                         *)
(* Conventions.  Business keys (code, barcode) and remote identifiers are  *)
(* numbered; key 0 stands for the empty string.  Titles and image URLs are *)
(* strings.  Prices and stocks are integers (the feed parser yields        *)
(* numbers; the unit of a price is irrelevant to every decision taken).    *)
(* The progress counter is a JavaScript number that takes the values       *)
(* 80/n * k; it is held as the numerator of a fraction whose denominator   *)
(* ProgressDen is fixed for a run.                                         *)
(***************************************************************************)
EXTENDS Integers, Sequences, FiniteSets, TLC

VARIABLES
  feedN,            \* parseNouveautesCSV's records (ProductData[])
  feedE,            \* parseEpuisesCSV's records (EpuisesData[])
  deleteEpuises,    \* process.env.SHOPIFY_DELETE_EPUISÉS === "true"
  rateLimited,      \* whether the platform throttles calls in this session
  remote,           \* the remote catalog: a set of products
  remote0,          \* the remote catalog when the current run started
  nextId,           \* the remote platform's next fresh product id
  run,              \* number of the current run of the action
  pc,               \* where the run stands
  progress,         \* action's progress (numerator over ProgressDen)
  advanced,         \* the amounts the sync engine passed to progressCallback
  ledger,           \* syncProductsWithShopify's failedProducts
  existingProducts, \* the index built by fetchExistingProducts
  keyI,             \* fetchExistingProducts' i (offset of the key batch)
  endCursor,        \* fetchExistingProducts' endCursor (0: null)
  batchI,           \* syncProductsWithShopify's i (offset of the batch)
  batchFailed,      \* indices of the current batch whose sub-result had userErrors
  call,             \* the shopifyGraphQL call in progress
  wire,             \* the last HTTP response shopifyGraphQL received
  ret,              \* what shopifyGraphQL returned to its caller
  calls,            \* the remote calls issued by the current run, in order
  firstRun,         \* what the first run did (for comparing a re-run)
  result            \* the terminal result returned by action

vars == <<feedN, feedE, deleteEpuises, rateLimited, remote, remote0, nextId, run, pc, progress,
          advanced,
          ledger, existingProducts, keyI, endCursor, batchI, batchFailed, call,
          wire, ret, calls, firstRun, result>>

----------------------------------------------------------------------------
(* Bounds of the model. *)

\* Number of runs of the action explored (a re-run starts from the remote
\* state the previous run left).
MaxRuns == 2
\* Length of the freely chosen end of the incoming feed.
MaxTail == 2
\* Length of the delisted feed.
MaxEpuises == 2
\* Number of key batches of the longest feed the index build alone is run on.
MaxKeyBatches == 2

----------------------------------------------------------------------------
(* Program constants. *)

\* shopify.ts:464  const batchSize = 50
batchSize == 50
\* shopify.ts:124  const batchSize = 250 (keys per index query)
keyBatchSize == 250
\* shopify.ts:130  products(first: 250, ...)
pageSize == 250
\* shopify.ts:95   const maxRetries = 3
maxRetries == 3
\* shopify.ts:105  const waitTime = 500 * (retry + 1)
baseDelay == 500
\* a JavaScript undefined identifier (variables[`inventoryItemId${index}`]
\* that was never assigned)
Undefined == 0
\* JavaScript's NaN, outside the range of the numbers a feed holds
NaN == -999999
\* shopify.ts:332, 393  locationId of every inventory change
locationId == "gid://shopify/Location/105222275414"

----------------------------------------------------------------------------
(* Helpers on sequences and finite maps. *)

Min(a, b) == IF a < b THEN a ELSE b

Range(s) == {s[k] : k \in DOMAIN s}

\* Array.prototype.slice(from, from + n), with from counted from 0
Slice(s, from, n) == SubSeq(s, from + 1, Min(from + n, Len(s)))

\* Math.ceil(a / b) for a >= 0, b > 0
CeilDiv(a, b) == (a + b - 1) \div b

\* the elements of a finite set of records with distinct ids, ordered by id
SeqById(S) ==
  LET ids  == {r.id : r \in S}
      lo   == CHOOSE m \in ids : \A j \in ids : m <= j
      hi   == CHOOSE m \in ids : \A j \in ids : j <= m
      asc  == IF S = {} THEN <<>>
              ELSE SelectSeq([i \in 1..(hi - lo + 1) |-> lo + i - 1], LAMBDA i : i \in ids)
  IN  [k \in DOMAIN asc |-> CHOOSE r \in S : r.id = asc[k]]

\* the subsets of S of at most one element
AtMostOne(S) == {{}} \cup {{x} : x \in S}

RECURSIVE SeqSum(_)
SeqSum(s) == IF s = <<>> THEN 0 ELSE Head(s) + SeqSum(Tail(s))

----------------------------------------------------------------------------
(* The feeds. *)

Product(code, title, barcode, price, stock, image) ==
  [code |-> code, title |-> title, barcode |-> barcode, price |-> price,
   stock |-> stock, image_url |-> image]

\* The rows the free end of the incoming feed is drawn from.
TailProducts ==
  { Product(1, "Widget", 1, 19, 10, "http://img"),  \* code = barcode
    Product(1, "Gadget", 2, 0, 3, ""),              \* code # barcode, price 0
    Product(2, "NoBarcode", 0, 7, 1, ""),           \* fails validateProduct
    Product(1, "NegPrice", 1, -1, 1, ""),           \* fails validateProduct
    Product(2, "", 2, 7, 1, "") }                   \* dropped by action

\* n well-formed rows (of stock 0) with pairwise distinct keys, none of them
\* a key of TailProducts: they fill a batch up to its width.
PadProducts(n) == [k \in 1..n |-> Product(100 + k, "Pad", 100 + k, 1, 0, "")]

Tails == UNION {[1..n -> TailProducts] : n \in 0..MaxTail}

\* The rows that follow the filling rows of a feed longer than one batch:
\* one matched by code and barcode, one matched by code only, one invalid.
PadTailProducts == {p \in TailProducts : p.title \in {"Widget", "Gadget", "NegPrice"}}
PadTails == UNION {[1..n -> PadTailProducts] : n \in 0..MaxTail}

\* The incoming feeds explored: short ones and ones that cross the batch
\* width, with a platform that answers or fails every call at once; the
\* shortest ones with a platform that also throttles.
Feeds == Tails \cup {PadProducts(batchSize - 1) \o t : t \in PadTails}
ShortFeeds == {t \in Tails : Len(t) <= MaxTail - 1}

\* The delisted feeds explored: distinct codes in increasing order, code 0
\* being the empty code, codes 1 and 2 keys of TailProducts and of Catalogs and
\* the others keys of neither; the longer ones with incoming feeds of at most
\* one row.
EpuisesCodes == 0..(MaxEpuises + 1)
EpuisesInOrder(S) ==
  [k \in 1..Cardinality(S) |->
     [code |-> CHOOSE c \in S : Cardinality({d \in S : d < c}) = k - 1]]
EpuisesFeeds ==
  {EpuisesInOrder(S) : S \in {T \in SUBSET EpuisesCodes : Cardinality(T) <= MaxEpuises}}
ShortEpuisesFeeds == {f \in EpuisesFeeds : \A k \in DOMAIN f : f[k].code = 2}

\* A remote product: its id, its first variant's barcode and inventory item.
RemoteProduct(id, barcode) == [id |-> id, barcode |-> barcode, inv |-> 1000 + id]

\* The remote catalogs a first run may find.
Catalogs == {{}, {RemoteProduct(1, 1), RemoteProduct(2, 2)}}

----------------------------------------------------------------------------
(* app/shopify.ts: pure functions. *)

isNaN(x) == x = NaN

\* (faulty variant: a price of 0 is rejected)
validateProductStrict(product) ==
  IF product.title = "" THEN FALSE
  ELSE IF product.barcode = 0 THEN FALSE
  ELSE IF isNaN(product.price) \/ product.price <= 0 THEN FALSE
  ELSE IF isNaN(product.stock) \/ product.stock < 0 THEN FALSE
  ELSE TRUE

\* validateProduct (titles and barcodes arrive trimmed from the parser)
validateProduct(product) ==
  IF product.title = "" THEN FALSE
  ELSE IF product.barcode = 0 THEN FALSE
  ELSE IF isNaN(product.price) \/ product.price < 0 THEN FALSE
  ELSE IF isNaN(product.stock) \/ product.stock < 0 THEN FALSE
  ELSE TRUE

\* Math.floor of a stock; parseInt yields integers
Floor(x) == x

----------------------------------------------------------------------------
(* app/routes/app._index.tsx: what action computes from the feeds. *)

\* nouveautes.filter((p) => p.code && p.title)
validNouveautes == SelectSeq(feedN, LAMBDA p : p.code # 0 /\ p.title # "")

\* (faulty variant: the delisted records are not filtered)
epuisesUnfiltered == feedE

\* epuises.filter((p) => p.code)
validEpuises == SelectSeq(feedE, LAMBDA p : p.code # 0)

\* Math.ceil(nouveautes.length / batchSize)
NumBatches == CeilDiv(Len(validNouveautes), batchSize)

\* The denominator the progress counter is held over: every amount added is
\* a whole number or 80 / NumBatches * k.
ProgressDen == IF NumBatches = 0 THEN 1 ELSE NumBatches

\* updateProgress: progress = Math.min(progress + increment, 100)
\* (p and inc are numerators over ProgressDen)
\* (faulty variant: no clamp)
updateProgressNoClamp(p, inc) == p + inc
updateProgress(p, inc) == Min(p + inc, 100 * ProgressDen)

\* a whole amount, as a numerator
Whole(n) == n * ProgressDen

\* (80 / Math.ceil(nouveautes.length / batchSize)) * validBatch.length,
\* as a numerator over ProgressDen = NumBatches
BatchShare(n) == 80 * n

\* const failedProducts: string[] = [] of action: never passed to the sync
\* engine, never appended to
actionFailedProducts == <<>>

\* the success flag of action's result
ResultSuccess == Len(actionFailedProducts) = 0

----------------------------------------------------------------------------
(* app/shopify.ts: syncProductsWithShopify's view of its arguments. *)

\* [...nouveautes, ...epuises].map((p) => p.code)
allCodes ==
  LET nouveautes == validNouveautes
      epuises    == validEpuises
  IN  [k \in 1..Len(nouveautes) |-> nouveautes[k].code]
        \o [k \in 1..Len(epuises) |-> epuises[k].code]

\* (faulty variant: the slices are taken from the end of the feed)
BatchFromEnd(i) ==
  Slice(validNouveautes,
        (CeilDiv(Len(validNouveautes), batchSize) - 1) * batchSize - i, batchSize)

\* nouveautes.slice(i, i + batchSize)
\* (faulty variant: one row too many)
BatchWide(i) == Slice(validNouveautes, i, batchSize + 1)
Batch(i) == Slice(validNouveautes, i, batchSize)

\* batch.filter(validateProduct)
ValidBatch(i) == SelectSeq(Batch(i), validateProduct)

\* the ledger entries of the rows of a batch that fail validation, in order
ValidationFailures(i) ==
  LET bad == SelectSeq(Batch(i), LAMBDA p : ~validateProduct(p))
  IN  [k \in 1..Len(bad) |-> [kind |-> "validation", of |-> bad[k].title]]

----------------------------------------------------------------------------
(* app/shopify.ts: createOrUpdateProductBatch, request construction. *)

Has(m, k) == k \in DOMAIN m

\* the alias chosen for a product: `update${index}` or `create${index}`
IsUpdate(existing, product) == Has(existing, product.barcode)

\* one sub-operation of the combined mutation (index counts from 0)
SubOperation(existing, product, k) ==
  IF IsUpdate(existing, product)
  THEN [alias |-> "update", index |-> k - 1, id |-> existing[product.barcode].id,
        barcode |-> product.barcode]
  ELSE [alias |-> "create", index |-> k - 1, id |-> Undefined,
        barcode |-> product.barcode]

\* products.forEach(...): the mutations of the batch
Mutations(existing, products) ==
  [k \in 1..Len(products) |-> SubOperation(existing, products[k], k)]

\* if (mutations.length === 0) return: a batch without products issues no call
\* (faulty variant: the call is sent even when empty)
NoMutationsNever(mutations) == FALSE
NoMutations(mutations) == Len(mutations) = 0

\* variables[`inventoryItemId${index}`] after the forEach: set for updates only
VariablesBefore(existing, products) ==
  [k \in 1..Len(products) |->
     IF IsUpdate(existing, products[k])
     THEN existing[products[k].barcode].inventoryItemId
     ELSE Undefined]

\* (faulty variant: the returned inventory item is not stored)
VariablesAfterStale(existing, products, results) == VariablesBefore(existing, products)

\* variables[`inventoryItemId${index}`] after the result loop: overwritten
\* by the returned inventory item of every item without userErrors
VariablesAfter(existing, products, results) ==
  [k \in 1..Len(products) |->
     IF results[k].userErrors
     THEN VariablesBefore(existing, products)[k]
     ELSE results[k].inv]

\* const inventoryAdjustments = products.map(...), as the changes of the
\* inventoryAdjustQuantities request (item: the index the change is built from)
InventoryChanges(products, variables) ==
  [k \in 1..Len(products) |->
     [inventoryItemId |-> variables[k], delta |-> Floor(products[k].stock),
      locationId |-> locationId, item |-> k - 1]]

\* the key the result loop reads for item k (k counted from 1):
\* existingProducts.get(product.barcode) ? `update${index}` : `create${index}`
ReadKey(existing, product, k) ==
  [alias |-> IF Has(existing, product.barcode) THEN "update" ELSE "create",
   index |-> k - 1]

\* (faulty variant: the image is uploaded for updated products too)
UploadedAlways(existing, product, res) ==
  ~res.userErrors /\ product.image_url # ""

\* whether the image of an item is uploaded: productImageUrl &&
\* !existingProducts.has(product.barcode), in the branch without userErrors
Uploaded(existing, product, res) ==
  /\ ~res.userErrors
  /\ product.image_url # ""
  /\ ~Has(existing, product.barcode)

\* the items whose image is uploaded
Uploads(existing, products, results) ==
  {k \in 1..Len(products) : Uploaded(existing, products[k], results[k])}

\* (faulty variant: the result loop records nothing)
ResultEntriesSilent(existing, products, results, imgFailed) == <<>>

\* the ledger entries of the result loop, in order: per item, the mutation
\* error or else the image-upload error
ResultEntries(existing, products, results, imgFailed) ==
  LET kind(k) == IF IsUpdate(existing, products[k]) THEN "update" ELSE "create"
      entry == [k \in 1..Len(products) |->
                  IF results[k].userErrors
                  THEN [kind |-> kind(k), of |-> products[k].title]
                  ELSE IF k \in imgFailed
                  THEN [kind |-> "image", of |-> products[k].title]
                  ELSE [kind |-> "none", of |-> products[k].title]]
  IN  SelectSeq(entry, LAMBDA e : e.kind # "none")

\* the image uploads of the result loop, in order, as remote calls
ImageCalls(existing, products, results) ==
  LET ks == SelectSeq([k \in 1..Len(products) |-> k],
                      LAMBDA k : Uploaded(existing, products[k], results[k]))
  IN  [j \in 1..Len(ks) |->
         [op |-> "image", product |-> results[ks[j]].id, item |-> ks[j] - 1]]

----------------------------------------------------------------------------
(* The remote platform. *)

NoWire == [status |-> 0, errors |-> "none", data |-> [op |-> "none"]]

\* the products a query for a batch of keys matches, in the platform's order
Matching(keys) ==
  LET asked == Range(keys)
  IN  SeqById({r \in remote : r.barcode \in asked})

\* one page of a products(first: 250, query, after) query
QueryData(req) ==
  LET all  == Matching(req.keys)
      last == Min(req.after + pageSize, Len(all))
      page == SubSeq(all, req.after + 1, last)
  IN  [op |-> "query", edges |-> page, hasNextPage |-> last < Len(all),
       endCursor |-> IF page = <<>> THEN 0 ELSE last]

\* the sub-operations of a combined mutation the platform may reject with
\* userErrors: at most one per request, on a key of TailProducts, and every
\* update or delete of a product that does not exist
TailKeys == {p.barcode : p \in TailProducts} \ {0}
Rejectable(subs) == {k \in 1..Len(subs) : subs[k].barcode \in TailKeys}
MustReject(subs) ==
  {k \in 1..Len(subs) : subs[k].alias # "create" /\ ~\E r \in remote : r.id = subs[k].id}

\* the successful creates among the first k sub-operations
CreatedBefore(subs, rejected, k) ==
  Cardinality({j \in 1..k : subs[j].alias = "create" /\ j \notin rejected})

\* the platform's answer to a combined productCreate/productUpdate mutation
MutationData(req, rejected) ==
  [op |-> "mutation",
   results |->
     [k \in 1..Len(req.subs) |->
        IF k \in rejected
        THEN [userErrors |-> TRUE, id |-> Undefined, inv |-> Undefined]
        ELSE IF req.subs[k].alias = "create"
        THEN LET id == nextId + CreatedBefore(req.subs, rejected, k - 1)
             IN  [userErrors |-> FALSE, id |-> id, inv |-> RemoteProduct(id, 0).inv]
        ELSE LET r == CHOOSE q \in remote : q.id = req.subs[k].id
             IN  [userErrors |-> FALSE, id |-> r.id, inv |-> r.inv]]]

\* the catalog after a combined productCreate/productUpdate mutation
MutationEffect(req, rejected) ==
  remote \cup
    {RemoteProduct(nextId + CreatedBefore(req.subs, rejected, k - 1), req.subs[k].barcode) :
       k \in {j \in 1..Len(req.subs) : req.subs[j].alias = "create" /\ j \notin rejected}}

\* the platform's answer to a combined productDelete mutation, and the
\* catalog after it
DeleteData(req, rejected) ==
  [op |-> "delete",
   results |-> [k \in 1..Len(req.subs) |-> [userErrors |-> k \in rejected]]]
DeleteEffect(req, rejected) ==
  {r \in remote :
     ~\E k \in 1..Len(req.subs) : k \notin rejected /\ req.subs[k].id = r.id}

Ok(data) == [status |-> 200, errors |-> "none", data |-> data]

\* The platform answers the request in flight: with a throttling signal (HTTP
\* 429, or an errors payload saying Throttled), with another error, or with
\* the data of the operation, which it then has applied.
RemoteRespond ==
  /\ call.active
  /\ call.awaiting
  /\ call' = [call EXCEPT !.awaiting = FALSE]
  /\ \/ /\ rateLimited
        /\ wire' \in {[status |-> 429, errors |-> "none", data |-> [op |-> "none"]],
                      [status |-> 200, errors |-> "Throttled", data |-> [op |-> "none"]]}
        /\ UNCHANGED <<remote, nextId>>
     \/ /\ wire' \in {[status |-> 500, errors |-> "none", data |-> [op |-> "none"]],
                      [status |-> 200, errors |-> "other", data |-> [op |-> "none"]]}
        /\ UNCHANGED <<remote, nextId>>
     \/ /\ call.req.op = "query"
        /\ wire' = Ok(QueryData(call.req))
        /\ UNCHANGED <<remote, nextId>>
     \/ /\ call.req.op = "mutation"
        /\ \E rej \in AtMostOne(Rejectable(call.req.subs)) :
             LET rejected == rej \cup MustReject(call.req.subs)
             IN  /\ wire' = Ok(MutationData(call.req, rejected))
                 /\ remote' = MutationEffect(call.req, rejected)
                 /\ nextId' = nextId + CreatedBefore(call.req.subs, rejected, Len(call.req.subs))
     \/ /\ call.req.op = "inventory"
        /\ \E failed \in BOOLEAN : wire' = Ok([op |-> "inventory", userErrors |-> failed])
        /\ UNCHANGED <<remote, nextId>>
     \/ /\ call.req.op = "delete"
        /\ \E rej \in AtMostOne(1..Len(call.req.subs)) :
             LET rejected == rej \cup MustReject(call.req.subs)
             IN  /\ wire' = Ok(DeleteData(call.req, rejected))
                 /\ remote' = DeleteEffect(call.req, rejected)
        /\ UNCHANGED nextId
  /\ UNCHANGED <<advanced, feedN, feedE, deleteEpuises, rateLimited, remote0, run, pc, progress, ledger,
                 existingProducts, keyI, endCursor, batchI, batchFailed, ret, calls,
                 firstRun, result>>

----------------------------------------------------------------------------
(* app/shopify.ts: shopifyGraphQL. *)

\* The call in progress: its request, the loop's retry, the waits made so far,
\* the number of fetches sent, and whether a fetch awaits its response.
NoCall == [active |-> FALSE, awaiting |-> FALSE, req |-> [op |-> "none"], retry |-> 0,
           waits |-> <<>>, sent |-> 0]
NoRet == [present |-> FALSE, json |-> NoWire]
NoResult == [kind |-> "none", progress |-> 0, success |-> FALSE, failures |-> 0,
             failedProducts |-> <<>>]

\* (faulty variant: every error response is taken for a throttling signal)
ThrottledOrFailed(w) == w.status # 200 \/ w.errors # "none"
\* response.status === 429 || json.errors?.some((e) => e.message.includes("Throttled"))
Throttled(w) == w.status = 429 \/ w.errors = "Throttled"

\* !response.ok || json.errors
Failed(w) == w.status # 200 \/ w.errors # "none"

\* const waitTime = 500 * (retry + 1)
\* (faulty variant: a constant wait)
WaitTimeFlat(retry) == baseDelay
WaitTime(retry) == baseDelay * (retry + 1)

\* for (let retry = 0; retry <= maxRetries; retry++)
\* (faulty variant: one turn more)
LoopContinuesLate(retry) == retry <= maxRetries + 1
LoopContinues(retry) == retry <= maxRetries

\* (faulty variant: the loop ends without handing the response back)
ReturnedNothing(w) == [present |-> FALSE, json |-> w]

\* return json
Returned(w) == [present |-> TRUE, json |-> w]

\* action's catch: the terminal result of a run that threw
FatalResult == [kind |-> "fatal", progress |-> progress, success |-> FALSE,
                failures |-> 0, failedProducts |-> <<>>]

\* the first fetch of a call of shopifyGraphQL, appended to the log after `log`
Send(req, log) ==
  /\ call' = [active |-> TRUE, awaiting |-> TRUE, req |-> req, retry |-> 0,
              waits |-> <<>>, sent |-> 1]
  /\ wire' = NoWire
  /\ ret' = NoRet
  /\ calls' = log \o <<req>>

\* the caller goes on with what shopifyGraphQL returned: the call is over
Resume ==
  /\ call' = NoCall
  /\ wire' = NoWire
  /\ ret' = NoRet

\* throw new Error(...): no caller above shopifyGraphQL catches it before
\* action's catch, which returns the fatal result
\* (faulty variant: the sync engine catches it and goes on with its loop)
ThrowCaught == pc' = "batch" /\ result' = result
Throw == pc' = "done" /\ result' = FatalResult

\* A throttling signal: wait, then fetch again, or leave the loop and throw.
GraphQLRetry ==
  /\ call.active
  /\ ~call.awaiting
  /\ Throttled(wire)
  /\ IF LoopContinues(call.retry + 1)
     THEN /\ call' = [call EXCEPT !.retry = @ + 1,
                                  !.waits = Append(@, WaitTime(call.retry)),
                                  !.sent = @ + 1, !.awaiting = TRUE]
          /\ wire' = NoWire
          /\ UNCHANGED <<pc, result>>
     ELSE /\ call' = [call EXCEPT !.active = FALSE, !.retry = @ + 1,
                                  !.waits = Append(@, WaitTime(call.retry))]
          /\ Throw
          /\ UNCHANGED wire
  /\ UNCHANGED <<advanced, feedN, feedE, deleteEpuises, rateLimited, remote, remote0, nextId, run, progress,
                 ledger, existingProducts, keyI, endCursor, batchI, batchFailed, ret,
                 calls, firstRun>>

\* Another error: throw, which action catches.
GraphQLError ==
  /\ call.active
  /\ ~call.awaiting
  /\ ~Throttled(wire)
  /\ Failed(wire)
  /\ call' = [call EXCEPT !.active = FALSE]
  /\ Throw
  /\ UNCHANGED <<advanced, feedN, feedE, deleteEpuises, rateLimited, remote, remote0, nextId, run, progress,
                 ledger, existingProducts, keyI, endCursor, batchI, batchFailed, wire,
                 ret, calls, firstRun>>

\* A successful response: return it.
GraphQLReturn ==
  /\ call.active
  /\ ~call.awaiting
  /\ ~Throttled(wire)
  /\ ~Failed(wire)
  /\ ret' = Returned(wire)
  /\ call' = [call EXCEPT !.active = FALSE]
  /\ UNCHANGED <<advanced, feedN, feedE, deleteEpuises, rateLimited, remote, remote0, nextId, run, pc,
                 progress, ledger, existingProducts, keyI, endCursor, batchI,
                 batchFailed, wire, calls, firstRun, result>>

----------------------------------------------------------------------------
(* What a run's log of remote calls says. *)

MutationCalls(log) == SelectSeq(log, LAMBDA c : c.op = "mutation")

\* the inventory adjustments of the incoming batches
BatchInventoryCalls(log) ==
  SelectSeq(log, LAMBDA c : c.op = "inventory" /\ c.phase = "nouveautes")

\* number of sub-operations with the given alias in a combined mutation
CountAlias(subs, alias) == Cardinality({k \in DOMAIN subs : subs[k].alias = alias})

\* number of productCreate sub-operations issued
CreateOps(log) ==
  LET ms == MutationCalls(log)
  IN  SeqSum([k \in DOMAIN ms |-> CountAlias(ms[k].subs, "create")])

\* the inventory deltas issued for the incoming products, batch by batch
BatchDeltas(log) ==
  LET is == BatchInventoryCalls(log)
  IN  [k \in DOMAIN is |-> [j \in DOMAIN is[k].changes |-> is[k].changes[j].delta]]

NoFirstRun == [done |-> FALSE, clean |-> FALSE, creates |-> 0, deltas |-> <<>>]

----------------------------------------------------------------------------
(* app/shopify.ts: fetchExistingProducts. *)

\* (faulty variant: every query carries a null cursor)
QueryRequestNoCursor(i, after) ==
  [op |-> "query", keys |-> Slice(allCodes, i, keyBatchSize), after |-> 0]

\* one query of a key batch
QueryRequest(i, after) ==
  [op |-> "query", keys |-> Slice(allCodes, i, keyBatchSize), after |-> after]

\* for (const edge of products): existingProducts.set(barcode, {...}) for
\* every product whose first variant has a barcode; Map.prototype.set keeps
\* the last value set for a key
IndexPut(m, edges) ==
  LET keys == {edges[k].barcode : k \in DOMAIN edges} \ {Undefined}
      last(b) == CHOOSE k \in DOMAIN edges :
                   /\ edges[k].barcode = b
                   /\ \A j \in DOMAIN edges : edges[j].barcode = b => j <= k
  IN  [x \in (DOMAIN m) \cup keys |->
         IF x \in keys
         THEN [id |-> edges[last(x)].id, inventoryItemId |-> edges[last(x)].inv]
         ELSE m[x]]

----------------------------------------------------------------------------
(* The run: action and syncProductsWithShopify, one step per remote call. *)

Init ==
  /\ rateLimited \in BOOLEAN
  /\ feedN \in IF rateLimited THEN ShortFeeds ELSE Feeds
  /\ feedE \in IF Len(feedN) <= 1 THEN EpuisesFeeds ELSE ShortEpuisesFeeds
  /\ deleteEpuises \in BOOLEAN
  /\ remote \in Catalogs
  /\ remote0 = remote
  /\ nextId = 10
  /\ run = 1
  /\ pc = "idle"
  /\ progress = 0
  /\ advanced = <<>>
  /\ ledger = <<>>
  /\ existingProducts = <<>>
  /\ keyI = 0
  /\ endCursor = 0
  /\ batchI = 0
  /\ batchFailed = {}
  /\ call = NoCall
  /\ wire = NoWire
  /\ ret = NoRet
  /\ calls = <<>>
  /\ firstRun = NoFirstRun
  /\ result = NoResult

\* action up to the call of syncProductsWithShopify, and the sync engine up to
\* its first remote call: the first index query or, without keys, the batches.
StartSync ==
  /\ pc = "idle"
  /\ LET p == updateProgress(updateProgress(updateProgress(0, Whole(20)), Whole(20)),
                             Whole(10))
     IN  /\ ledger' = <<>>
         /\ existingProducts' = <<>>
         /\ keyI' = 0
         /\ endCursor' = 0
         /\ batchI' = 0
         /\ IF 0 < Len(allCodes)
            THEN /\ Send(QueryRequest(0, 0), <<>>)
                 /\ progress' = p
                 /\ advanced' = <<>>
                 /\ pc' = "index"
            ELSE /\ progress' = updateProgress(p, Whole(10))
                 /\ advanced' = <<Whole(10)>>
                 /\ pc' = "batch"
                 /\ calls' = <<>>
                 /\ UNCHANGED <<call, wire, ret>>
  /\ UNCHANGED <<feedN, feedE, deleteEpuises, rateLimited, remote, remote0, nextId, run,
                 batchFailed, firstRun, result>>

\* fetchExistingProducts after a page: the next page, the next key batch, or
\* the return to the sync engine and progressCallback(10).
IndexPage ==
  /\ pc = "index"
  /\ ret.present
  /\ LET data == ret.json.data
     IN  /\ existingProducts' = IndexPut(existingProducts, data.edges)
         /\ IF data.hasNextPage
            THEN /\ Send(QueryRequest(keyI, data.endCursor), calls)
                 /\ endCursor' = data.endCursor
                 /\ UNCHANGED <<keyI, progress, advanced, pc>>
            ELSE IF keyI + keyBatchSize < Len(allCodes)
            THEN /\ Send(QueryRequest(keyI + keyBatchSize, 0), calls)
                 /\ keyI' = keyI + keyBatchSize
                 /\ endCursor' = 0
                 /\ UNCHANGED <<progress, advanced, pc>>
            ELSE /\ progress' = updateProgress(progress, Whole(10))
                 /\ advanced' = Append(advanced, Whole(10))
                 /\ pc' = "batch"
                 /\ Resume
                 /\ endCursor' = data.endCursor
                 /\ UNCHANGED <<keyI, calls>>
  /\ UNCHANGED <<feedN, feedE, deleteEpuises, rateLimited, remote, remote0, nextId, run, ledger,
                 batchI, batchFailed, firstRun, result>>

\* One turn of the batch loop up to the combined mutation: slice, validate,
\* build the sub-operations; a batch without valid products issues no call.
BeginBatch ==
  /\ pc = "batch"
  /\ batchI < Len(validNouveautes)
  /\ ledger' = ledger \o ValidationFailures(batchI)
  /\ LET validBatch == ValidBatch(batchI)
         mutations == Mutations(existingProducts, validBatch)
     IN  IF NoMutations(mutations)
         THEN /\ progress' = updateProgress(progress, BatchShare(Len(validBatch)))
              /\ advanced' = Append(advanced, BatchShare(Len(validBatch)))
              /\ batchI' = batchI + batchSize
              /\ UNCHANGED <<pc, call, wire, ret, calls, batchFailed>>
         ELSE /\ Send([op |-> "mutation", subs |-> mutations], calls)
              /\ pc' = "mutation"
              /\ batchFailed' = {}
              /\ UNCHANGED <<progress, advanced, batchI>>
  /\ UNCHANGED <<feedN, feedE, deleteEpuises, rateLimited, remote, remote0, nextId, run,
                 existingProducts, keyI, endCursor, firstRun, result>>

\* createOrUpdateProductBatch after the combined mutation: the result loop
\* with its image uploads (one of them may fail; the failure is caught), then
\* the inventory adjustment of the batch.
MutationResult ==
  /\ pc = "mutation"
  /\ ret.present
  /\ LET validBatch == ValidBatch(batchI)
         results == ret.json.data.results
     IN  \E imgFailed \in AtMostOne(Uploads(existingProducts, validBatch, results)) :
           /\ ledger' = ledger \o ResultEntries(existingProducts, validBatch, results,
                                                imgFailed)
           /\ batchFailed' = {k - 1 : k \in {j \in DOMAIN results : results[j].userErrors}}
           /\ Send([op |-> "inventory", phase |-> "nouveautes",
                    changes |-> InventoryChanges(validBatch,
                                  VariablesAfter(existingProducts, validBatch, results))],
                   calls \o ImageCalls(existingProducts, validBatch, results))
           /\ pc' = "inventory"
  /\ UNCHANGED <<advanced, feedN, feedE, deleteEpuises, rateLimited, remote, remote0, nextId, run, progress,
                 existingProducts, keyI, endCursor, batchI, firstRun, result>>

\* createOrUpdateProductBatch after the inventory adjustment, and the end of
\* the turn of the batch loop: progressCallback and i += batchSize.
InventoryResult ==
  /\ pc = "inventory"
  /\ ret.present
  /\ LET validBatch == ValidBatch(batchI)
     IN  /\ ledger' = IF ret.json.data.userErrors
                      THEN ledger \o [k \in 1..Len(validBatch) |->
                                        [kind |-> "inventory", of |-> validBatch[k].title]]
                      ELSE ledger
         /\ progress' = updateProgress(progress, BatchShare(Len(validBatch)))
         /\ advanced' = Append(advanced, BatchShare(Len(validBatch)))
  /\ batchI' = batchI + batchSize
  /\ pc' = "batch"
  /\ Resume
  /\ UNCHANGED <<feedN, feedE, deleteEpuises, rateLimited, remote, remote0, nextId, run,
                 existingProducts, keyI, endCursor, batchFailed, calls, firstRun,
                 result>>

----------------------------------------------------------------------------
(* app/shopify.ts: setEpuisesStock and deleteEpuisesProducts. *)

\* the positions of the delisted products the index holds, in feed order
FoundEpuises(existing) ==
  SelectSeq([k \in 1..Len(validEpuises) |-> k],
            LAMBDA k : Has(existing, validEpuises[k].code))

\* the ledger entries of the delisted products the index does not hold
NotFoundEntries(existing) ==
  LET missing == SelectSeq(validEpuises, LAMBDA p : ~Has(existing, p.code))
  IN  [k \in 1..Len(missing) |-> [kind |-> "notfound", of |-> missing[k].code]]

\* (faulty variant: only the first record found is adjusted)
EpuisesChangesFirst(existing) ==
  LET found == FoundEpuises(existing)
  IN  [j \in 1..Min(1, Len(found)) |->
         [inventoryItemId |-> existing[validEpuises[found[j]].code].inventoryItemId,
          delta |-> 0, locationId |-> locationId, item |-> found[j] - 1]]

\* setEpuisesStock's inventoryAdjustments
EpuisesChanges(existing) ==
  LET found == FoundEpuises(existing)
  IN  [j \in 1..Len(found) |->
         [inventoryItemId |-> existing[validEpuises[found[j]].code].inventoryItemId,
          delta |-> 0, locationId |-> locationId, item |-> found[j] - 1]]

\* deleteEpuisesProducts' mutations
EpuisesDeletes(existing) ==
  LET found == FoundEpuises(existing)
  IN  [j \in 1..Len(found) |->
         [alias |-> "delete", index |-> found[j] - 1,
          id |-> existing[validEpuises[found[j]].code].id,
          barcode |-> validEpuises[found[j]].code]]

\* The delisted phase up to its remote call, under the policy of the run.
BeginEpuises ==
  /\ pc = "batch"
  /\ batchI >= Len(validNouveautes)
  /\ ledger' = ledger \o NotFoundEntries(existingProducts)
  /\ IF deleteEpuises
     THEN LET mutations == EpuisesDeletes(existingProducts)
          IN  IF Len(mutations) = 0
              THEN /\ pc' = "finish"
                   /\ UNCHANGED <<call, wire, ret, calls>>
              ELSE /\ Send([op |-> "delete", subs |-> mutations], calls)
                   /\ pc' = "deleted"
     ELSE LET inventoryAdjustments == EpuisesChanges(existingProducts)
          IN  IF Len(inventoryAdjustments) = 0
              THEN /\ pc' = "finish"
                   /\ UNCHANGED <<call, wire, ret, calls>>
              ELSE /\ Send([op |-> "inventory", phase |-> "epuises",
                            changes |-> inventoryAdjustments], calls)
                   /\ pc' = "zeroed"
  /\ UNCHANGED <<advanced, feedN, feedE, deleteEpuises, rateLimited, remote, remote0, nextId, run, progress,
                 existingProducts, keyI, endCursor, batchI, batchFailed, firstRun,
                 result>>

\* setEpuisesStock after its inventory adjustment.
EpuisesStockResult ==
  /\ pc = "zeroed"
  /\ ret.present
  /\ ledger' = IF ret.json.data.userErrors
               THEN ledger \o [k \in 1..Len(validEpuises) |->
                                 [kind |-> "epuisesInventory", of |-> validEpuises[k].code]]
               ELSE ledger
  /\ pc' = "finish"
  /\ Resume
  /\ UNCHANGED <<advanced, feedN, feedE, deleteEpuises, rateLimited, remote, remote0, nextId, run, progress,
                 existingProducts, keyI, endCursor, batchI, batchFailed, calls,
                 firstRun, result>>

\* deleteEpuisesProducts after its combined mutation.
EpuisesDeleteResult ==
  /\ pc = "deleted"
  /\ ret.present
  /\ LET found == FoundEpuises(existingProducts)
         bad == SelectSeq([j \in 1..Len(found) |-> j],
                          LAMBDA j : ret.json.data.results[j].userErrors)
     IN  ledger' = ledger \o [k \in 1..Len(bad) |->
                                [kind |-> "delete", of |-> validEpuises[found[bad[k]]].code]]
  /\ pc' = "finish"
  /\ Resume
  /\ UNCHANGED <<advanced, feedN, feedE, deleteEpuises, rateLimited, remote, remote0, nextId, run, progress,
                 existingProducts, keyI, endCursor, batchI, batchFailed, calls,
                 firstRun, result>>

----------------------------------------------------------------------------
(* The end of a run. *)

\* (faulty variant: the result reports the progress before the last amounts)
OkResultStale(p) ==
  [kind |-> "ok", progress |-> progress, success |-> ResultSuccess,
   failures |-> Len(actionFailedProducts), failedProducts |-> actionFailedProducts]

\* the terminal result of a run that did not throw
OkResult(p) ==
  [kind |-> "ok", progress |-> p, success |-> ResultSuccess,
   failures |-> Len(actionFailedProducts), failedProducts |-> actionFailedProducts]

\* The sync engine's last progressCallback(10) and return; action's top-up of
\* the progress and its result.
Finish ==
  /\ pc = "finish"
  /\ LET p == updateProgress(progress, Whole(10))
         q == updateProgress(p, Whole(100) - p)
     IN  /\ progress' = q
         /\ advanced' = Append(advanced, Whole(10))
         /\ result' = OkResult(q)
  /\ pc' = "done"
  /\ UNCHANGED <<feedN, feedE, deleteEpuises, rateLimited, remote, remote0, nextId, run, ledger,
                 existingProducts, keyI, endCursor, batchI, batchFailed, call, wire,
                 ret, calls, firstRun>>

\* The action is submitted again with the same feeds, against the catalog the
\* completed run left.
Rerun ==
  /\ pc = "done"
  /\ result.kind = "ok"
  /\ ledger = <<>>
  /\ run < MaxRuns
  /\ run' = run + 1
  /\ firstRun' = IF run = 1
                 THEN [done |-> TRUE, clean |-> ledger = <<>>,
                       creates |-> CreateOps(calls), deltas |-> BatchDeltas(calls)]
                 ELSE firstRun
  /\ remote0' = remote
  /\ pc' = "idle"
  /\ progress' = 0
  /\ advanced' = <<>>
  /\ ledger' = <<>>
  /\ existingProducts' = <<>>
  /\ keyI' = 0
  /\ endCursor' = 0
  /\ batchI' = 0
  /\ batchFailed' = {}
  /\ call' = NoCall
  /\ wire' = NoWire
  /\ ret' = NoRet
  /\ calls' = <<>>
  /\ result' = NoResult
  /\ UNCHANGED <<feedN, feedE, deleteEpuises, rateLimited, remote, nextId>>

Next ==
  \/ StartSync
  \/ RemoteRespond
  \/ GraphQLRetry
  \/ GraphQLError
  \/ GraphQLReturn
  \/ IndexPage
  \/ BeginBatch
  \/ MutationResult
  \/ InventoryResult
  \/ BeginEpuises
  \/ EpuisesStockResult
  \/ EpuisesDeleteResult
  \/ Finish
  \/ Rerun

Spec == Init /\ [][Next]_vars

\* The steps of a run: every action but the submission of a further run.
Step ==
  \/ StartSync
  \/ RemoteRespond
  \/ GraphQLRetry
  \/ GraphQLError
  \/ GraphQLReturn
  \/ IndexPage
  \/ BeginBatch
  \/ MutationResult
  \/ InventoryResult
  \/ BeginEpuises
  \/ EpuisesStockResult
  \/ EpuisesDeleteResult
  \/ Finish

\* A run whose every request is answered and whose every continuation is
\* resumed: an awaited promise that settles is resumed by the event loop.
FairSpec == Spec /\ WF_vars(Step)

----------------------------------------------------------------------------
(* The index build alone, on feeds about as long as a key batch. *)

\* The lengths of these feeds: around each multiple of the key batch size.
KeyBatchLengths ==
  {b * keyBatchSize + d : b \in 1..(MaxKeyBatches - 1), d \in {-1, 0, 1}}

\* The feeds: rows with pairwise distinct keys.
KeyBatchFeeds == {PadProducts(n) : n \in KeyBatchLengths}

\* The catalogs such a feed may meet: an empty one, one product per row, and
\* one further product that carries the barcode of the first row (the
\* platform does not keep barcodes unique).
KeyBatchCatalogs(feed) ==
  LET own == {RemoteProduct(feed[k].barcode, feed[k].barcode) : k \in DOMAIN feed}
  IN  {{}, own, own \cup {RemoteProduct(feed[Len(feed)].barcode + 1, feed[1].barcode)}}

IndexInit ==
  /\ rateLimited \in BOOLEAN
  /\ feedN \in KeyBatchFeeds
  /\ feedE \in ShortEpuisesFeeds
  /\ deleteEpuises = FALSE
  /\ remote \in KeyBatchCatalogs(feedN)
  /\ remote0 = remote
  /\ nextId = 10
  /\ run = 1
  /\ pc = "idle"
  /\ progress = 0
  /\ advanced = <<>>
  /\ ledger = <<>>
  /\ existingProducts = <<>>
  /\ keyI = 0
  /\ endCursor = 0
  /\ batchI = 0
  /\ batchFailed = {}
  /\ call = NoCall
  /\ wire = NoWire
  /\ ret = NoRet
  /\ calls = <<>>
  /\ firstRun = NoFirstRun
  /\ result = NoResult

\* The steps from the submission of the action to the return of
\* fetchExistingProducts.
IndexNext ==
  \/ StartSync
  \/ RemoteRespond
  \/ GraphQLRetry
  \/ GraphQLError
  \/ GraphQLReturn
  \/ IndexPage

IndexSpec == IndexInit /\ [][IndexNext]_vars

----------------------------------------------------------------------------
(* Properties. *)

\* every row of the incoming feed passes validateProduct
AllFeedValid == \A k \in DOMAIN feedN : validateProduct(feedN[k])

\* C1: a re-run with the same feed, after a first run in which every
\* sub-operation succeeded, issues no productCreate and, once complete, has
\* issued the inventory deltas of the first run.
C1_RerunIdempotent ==
  (run = 2 /\ firstRun.done /\ firstRun.clean /\ AllFeedValid)
    => /\ CreateOps(calls) = 0
       /\ (pc = "done" /\ result.kind = "ok") => BatchDeltas(calls) = firstRun.deltas

\* C2: a product whose barcode is the first-variant barcode of a remote product
\* that existed when the run started is sent as a productUpdate of that remote
\* product, never as a productCreate.
C2_MatchedByBarcode ==
  \A c \in Range(MutationCalls(calls)) :
    \A k \in DOMAIN c.subs :
      LET ids == {r.id : r \in {q \in remote0 : q.barcode = c.subs[k].barcode}}
      IN  ids # {} => (c.subs[k].alias = "update" /\ c.subs[k].id \in ids)

\* C3: the inventory adjustment of a batch holds no change for an item whose
\* create/update sub-result carried userErrors.
C3_FailedItemsExcluded ==
  (call.req.op = "inventory" /\ call.req.phase = "nouveautes")
    => \A j \in DOMAIN call.req.changes : call.req.changes[j].item \notin batchFailed

\* C4: a run that completes reports success exactly when its ledger is empty,
\* and reports the failures otherwise.
C4_SuccessIffLedgerEmpty ==
  result.kind = "ok"
    => /\ result.success <=> (ledger = <<>>)
       /\ ledger # <<>> => result.failures = Len(ledger)

\* C5: the failure list of every terminal result, of a completed run or of an
\* aborted one, is the ledger of the run.
C5_LedgerReturned ==
  result.kind # "none" => result.failedProducts = ledger

\* number of rows the sync engine receives that pass validateProduct
NValid ==
  Cardinality({k \in DOMAIN validNouveautes : validateProduct(validNouveautes[k])})

\* whether the b-th slice of batchSize rows the sync engine receives holds a
\* row that passes validateProduct
SliceHasValid(b) ==
  \E k \in (b * batchSize + 1)..Min((b + 1) * batchSize, Len(validNouveautes)) :
    validateProduct(validNouveautes[k])

NonEmptySlices ==
  Cardinality({b \in 0..(CeilDiv(Len(validNouveautes), batchSize) - 1) : SliceHasValid(b)})

\* total number of sub-operations of the combined mutations issued
SubOperations(log) ==
  LET ms == MutationCalls(log) IN SeqSum([k \in DOMAIN ms |-> Len(ms[k].subs)])

\* C6, as claimed: a completed run has issued ceil(N/50) combined mutations for
\* the N rows that pass validation, however the invalid rows are interleaved.
C6_CeilOfValid ==
  (pc = "done" /\ result.kind = "ok")
    => Len(MutationCalls(calls)) = CeilDiv(NValid, batchSize)

\* C6, amended: a completed run has issued one combined mutation per slice of
\* 50 received rows that holds a valid row, carrying the N valid rows between
\* them: at least ceil(N/50) calls, and exactly that many when every received
\* row is valid.
C6_OnePerNonEmptySlice ==
  (pc = "done" /\ result.kind = "ok")
    => /\ Len(MutationCalls(calls)) = NonEmptySlices
       /\ SubOperations(calls) = NValid
       /\ Len(MutationCalls(calls)) >= CeilDiv(NValid, batchSize)
       /\ NValid = Len(validNouveautes)
            => Len(MutationCalls(calls)) = CeilDiv(NValid, batchSize)

\* C6 witness: a completed run of 50 valid rows that took two combined mutations
C6_Witness ==
  /\ pc = "done"
  /\ result.kind = "ok"
  /\ NValid = batchSize
  /\ Len(MutationCalls(calls)) = 2

\* C7: every combined mutation carries from 1 to 50 sub-operations, and the one
\* in progress carries one per item of its batch, in order.
C7_BatchWidth ==
  /\ \A c \in Range(MutationCalls(calls)) : 1 <= Len(c.subs) /\ Len(c.subs) <= batchSize
  /\ (call.active /\ call.req.op = "mutation")
       => /\ Len(call.req.subs) = Len(ValidBatch(batchI))
          /\ \A k \in DOMAIN call.req.subs :
               /\ call.req.subs[k].index = k - 1
               /\ call.req.subs[k].barcode = ValidBatch(batchI)[k].barcode

\* C7 witness: a combined mutation of exactly 50 sub-operations was issued
C7_Witness == \E c \in Range(MutationCalls(calls)) : Len(c.subs) = batchSize

\* C8: the progress stays within [0, 100] and no step of a run decreases it.
C8_ProgressMonotone ==
  /\ [](0 <= progress /\ progress <= 100 * ProgressDen)
  /\ [][run' = run => progress' >= progress]_vars

\* C8 witness: the progress has reached 100 and the run has advances left
C8_Witness == pc = "batch" /\ progress = 100 * ProgressDen /\ batchI < Len(validNouveautes)

\* C9: a call throttled k times and then answered returns that answer as
\* received, after waits of 500, 1000, ..., 500k ms, and no step of the call
\* touches the ledger.
C9_ThrottledThenAnswered ==
  [][/\ call.active => ledger' = ledger
     /\ (call.active /\ ret'.present)
          => /\ ret'.json = wire
             /\ call'.sent = call.retry + 1
             /\ call'.waits = [k \in 1..call.retry |-> baseDelay * k]
             /\ \A j, k \in DOMAIN call'.waits : j < k => call'.waits[j] < call'.waits[k]
    ]_vars

\* C9 witness: a combined mutation throttled twice and answered at the third
\* attempt has returned, the ledger being empty
C9_Witness ==
  /\ ret.present
  /\ call.req.op = "mutation"
  /\ call.retry = 2
  /\ call.waits = <<500, 1000>>
  /\ ledger = <<>>

\* C10: a call never sends more than maxRetries + 1 = 4 requests, and one that
\* was throttled that many times has thrown without returning.
C10_BoundedRetries ==
  /\ call.sent <= maxRetries + 1
  /\ call.retry = maxRetries + 1
       => /\ ~call.active
          /\ call.sent = 4
          /\ ~ret.present
          /\ pc = "done"
          /\ result.kind = "fatal"

\* C10 witness: a call has thrown after four throttled requests
C10_Witness == call.retry = maxRetries + 1 /\ call.sent = 4 /\ result.kind = "fatal"

\* a response that is an error without being a throttling signal
NonThrottlingError(w) ==
  /\ w.status # 429
  /\ w.errors # "Throttled"
  /\ (w.status # 200 \/ w.errors # "none")

\* C11: an error response that is no throttling signal, on any attempt, makes
\* the call throw at once: the step that handles it sends no request and adds
\* no wait, and the call ends with one request per attempt, one wait per
\* throttling signal, nothing returned, and the fatal result.
C11_ErrorRaisesAtOnce ==
  /\ [][(call.active /\ ~call.awaiting /\ NonThrottlingError(wire))
          => /\ ~call'.active
             /\ call'.sent = call.sent
             /\ call'.waits = call.waits
             /\ calls' = calls
             /\ ~ret'.present
             /\ result'.kind = "fatal"]_vars
  /\ []((result.kind = "fatal" /\ NonThrottlingError(wire))
          => /\ ~call.active
             /\ call.sent = call.retry + 1
             /\ Len(call.waits) = call.retry
             /\ ~ret.present)

\* C11 witness: a call throttled once got an error at its second attempt and
\* has thrown after two requests and the one wait
C11_Witness ==
  /\ result.kind = "fatal"
  /\ NonThrottlingError(wire)
  /\ call.retry = 1
  /\ call.sent = 2
  /\ call.waits = <<500>>

\* a call of shopifyGraphQL has ended without returning
Thrown == call.req.op # "none" /\ ~call.active /\ ~ret.present

\* C12: once a call has thrown the run is over with the fatal result: the call
\* that threw is the last remote call of the run, and nothing is issued, undone
\* or changed afterwards.
C12_AbortOnThrow ==
  /\ [](Thrown
          => /\ result.kind = "fatal"
             /\ pc = "done"
             /\ calls # <<>>
             /\ calls[Len(calls)] = call.req)
  /\ [][Thrown
          => /\ calls' = calls
             /\ call' = call
             /\ remote' = remote
             /\ ledger' = ledger
             /\ result' = result]_vars

\* C12 witness: the combined mutation of a second batch threw after the first
\* batch's products were created; they are still there
C12_Witness ==
  /\ result.kind = "fatal"
  /\ call.req.op = "mutation"
  /\ Len(MutationCalls(calls)) = 2
  /\ remote # remote0

\* the ledger entries recorded for the delisted code c
EpuisesEntries(c) ==
  SelectSeq(ledger, LAMBDA e : /\ e.kind \in {"notfound", "epuisesInventory", "delete"}
                               /\ e.of = c)

\* the positions (from 0) of the delisted feed a remote call of the delisted
\* phase acts on
EpuisesTouched(log) ==
  UNION {IF c.op = "delete" THEN {c.subs[j].index : j \in DOMAIN c.subs}
         ELSE IF c.op = "inventory" /\ c.phase = "epuises"
         THEN {c.changes[j].item : j \in DOMAIN c.changes}
         ELSE {} : c \in Range(log)}

\* C13: after the delisted phase, a delisted record whose code the index does
\* not hold has no inventory change and no delete issued for it and exactly
\* one ledger entry, its "not found" entry.
C13_NotFoundOnce ==
  (pc = "finish" \/ (pc = "done" /\ result.kind = "ok"))
    => \A k \in DOMAIN validEpuises :
         ~Has(existingProducts, validEpuises[k].code)
           => /\ (k - 1) \notin EpuisesTouched(calls)
              /\ Len(EpuisesEntries(validEpuises[k].code)) = 1
              /\ EpuisesEntries(validEpuises[k].code)[1].kind = "notfound"

\* the delisted phase has issued its remote call, or had none to issue
PastEpuises ==
  pc \in {"zeroed", "deleted", "finish"} \/ (pc = "done" /\ result.kind = "ok")

\* the inventory changes of the delisted phase, and its delete sub-operations
EpuisesChangesSent(log) ==
  UNION {{c.changes[j] : j \in DOMAIN c.changes} :
           c \in {d \in Range(log) : d.op = "inventory" /\ d.phase = "epuises"}}
EpuisesDeletesSent(log) ==
  UNION {{c.subs[j] : j \in DOMAIN c.subs} : c \in {d \in Range(log) : d.op = "delete"}}

\* C14: a run keeps to one policy.  Under zero-stock it issues no productDelete
\* and, for every delisted record the index holds, exactly one inventory change,
\* of delta 0 on the indexed inventory item; under delete it issues no
\* inventory change for delisted records and, for every such record, exactly
\* one productDelete of the indexed product.
C14_OnePolicy ==
  /\ ~deleteEpuises => EpuisesDeletesSent(calls) = {}
  /\ deleteEpuises => EpuisesChangesSent(calls) = {}
  /\ PastEpuises =>
       \A k \in DOMAIN validEpuises :
         Has(existingProducts, validEpuises[k].code) =>
           LET ref == existingProducts[validEpuises[k].code]
           IN  IF deleteEpuises
               THEN {d \in EpuisesDeletesSent(calls) : d.index = k - 1}
                      = {[alias |-> "delete", index |-> k - 1, id |-> ref.id,
                          barcode |-> validEpuises[k].code]}
               ELSE {c \in EpuisesChangesSent(calls) : c.item = k - 1}
                      = {[inventoryItemId |-> ref.inventoryItemId, delta |-> 0,
                          locationId |-> locationId, item |-> k - 1]}

\* C14 witness: under zero-stock, the adjustment for two delisted records the
\* index holds has been issued
C14_Witness ==
  /\ ~deleteEpuises
  /\ pc = "zeroed"
  /\ Len(FoundEpuises(existingProducts)) = 2
  /\ Cardinality(EpuisesChangesSent(calls)) = 2

\* the feed of one valid row of stock 10 against an empty catalog
OneWidget ==
  /\ run = 1
  /\ remote0 = {}
  /\ feedE = <<>>
  /\ Len(feedN) = 1
  /\ feedN[1].title = "Widget"
  /\ feedN[1].stock = 10

\* C15: the key read back for every item of the combined mutation in progress
\* is the alias and index it was sent under; the inventory adjustment built
\* from the sub-results holds, for every item without userErrors, exactly one
\* change, on the inventory item returned for that item, of delta floor(stock),
\* at the fixed location; and one valid row of stock 10 against an empty
\* catalog is sent as one create, is adjusted by +10 on the returned inventory
\* item, and gets ledger entries only for failures the platform reports.
C15_OwnSubResult ==
  /\ []((call.active /\ call.req.op = "mutation")
          => \A k \in DOMAIN call.req.subs :
               ReadKey(existingProducts, ValidBatch(batchI)[k], k)
                 = [alias |-> call.req.subs[k].alias, index |-> call.req.subs[k].index])
  /\ [][(pc = "mutation" /\ pc' = "inventory")
          => LET results == ret.json.data.results
                 validBatch == ValidBatch(batchI)
                 changes == call'.req.changes
             IN  /\ call'.req.op = "inventory"
                 /\ \A k \in DOMAIN results :
                      ~results[k].userErrors
                        => {j \in DOMAIN changes : changes[j].item = k - 1} = {k}
                           /\ changes[k].inventoryItemId = results[k].inv
                           /\ changes[k].delta = validBatch[k].stock
                           /\ changes[k].locationId = locationId]_vars
  /\ [](OneWidget
          => /\ \A c \in Range(MutationCalls(calls)) :
                  Len(c.subs) = 1 /\ c.subs[1].alias = "create"
             /\ \A c \in Range(BatchInventoryCalls(calls)) :
                  Len(c.changes) = 1 /\ c.changes[1].delta = 10
             /\ \A k \in DOMAIN ledger : ledger[k].kind \in {"create", "image", "inventory"})

\* C15 witness: the run of that one row is complete: one create, +10 on the
\* inventory item of the product created, no ledger entry
C15_Witness ==
  /\ OneWidget
  /\ pc = "done"
  /\ result.kind = "ok"
  /\ ledger = <<>>
  /\ CreateOps(calls) = 1
  /\ Len(BatchInventoryCalls(calls)) = 1
  /\ \E r \in remote :
       BatchInventoryCalls(calls)[1].changes[1].inventoryItemId = r.inv
  /\ BatchDeltas(calls) = <<(<<10>>)>>

\* the business keys of both feeds: the barcode of each incoming product, the
\* code of each delisted product
BusinessKeys ==
  ({validNouveautes[k].barcode : k \in DOMAIN validNouveautes}
     \cup {validEpuises[k].code : k \in DOMAIN validEpuises}) \ {Undefined}

\* C16: when the index has been built, it maps every business key of either
\* feed that is the first-variant barcode of a remote product to the id and
\* inventory item of such a product.
C16_IndexCoversKeys ==
  (pc = "batch" /\ batchI = 0)
    => \A key \in BusinessKeys :
         (\E r \in remote : r.barcode = key)
           => /\ Has(existingProducts, key)
              /\ \E r \in remote :
                   /\ r.barcode = key
                   /\ existingProducts[key] = [id |-> r.id, inventoryItemId |-> r.inv]

\* the rows of the incoming feed of the given title that validateProduct rejects
RejectedRows(title) ==
  {k \in DOMAIN feedN : feedN[k].title = title /\ ~validateProduct(feedN[k])}

\* the validation entries of the ledger for the given title
ValidationEntries(title) ==
  {k \in DOMAIN ledger : ledger[k].kind = "validation" /\ ledger[k].of = title}

\* total number of inventory changes issued for incoming products
BatchChanges(log) ==
  LET is == BatchInventoryCalls(log) IN SeqSum([k \in DOMAIN is |-> Len(is[k].changes)])

\* C17: in a completed run every row of the incoming feed that lacks a title
\* or a barcode or has a negative or non-numeric price or stock has exactly one
\* validation entry in the ledger, and only the other rows are sent in
\* mutations and inventory adjustments.
C17_RejectedOnce ==
  (pc = "done" /\ result.kind = "ok")
    => /\ \A k \in DOMAIN feedN :
            Cardinality(ValidationEntries(feedN[k].title))
              = Cardinality(RejectedRows(feedN[k].title))
       /\ SubOperations(calls)
            = Cardinality({k \in DOMAIN feedN : validateProduct(feedN[k])})
       /\ BatchChanges(calls)
            = Cardinality({k \in DOMAIN feedN : validateProduct(feedN[k])})

\* a record with a title, a barcode, a price >= 0 and an integer stock >= 0
WellFormed(p) ==
  /\ p.title # ""
  /\ p.barcode # Undefined
  /\ p.price # NaN /\ p.price >= 0
  /\ p.stock # NaN /\ p.stock >= 0

Terminal == pc = "done" /\ result.kind \in {"ok", "fatal"}

\* C19: when every request is answered, a run that has not ended can always
\* take a step, and it eventually ends with a summary or with the fatal
\* failure message.
C19_RunTerminates ==
  /\ [](pc # "done" => ENABLED Step)
  /\ (pc # "done") ~> Terminal

\* C19 witness: a second run has ended with a summary after at least three
\* remote calls
C19_Witness ==
  /\ Terminal
  /\ run = 2
  /\ result.kind = "ok"
  /\ Len(calls) >= 3

\* the amounts advanced for the batches: all but the first and the last
BatchAmounts == SubSeq(advanced, 2, Len(advanced) - 1)

\* C20: in a completed run the sync engine has advanced 10 after the index
\* build, one amount per batch, proportional to the batch's item count, and 10
\* after the delisted phase; the amounts of the batches sum to at most 80, and
\* to 80 when every incoming row is valid.
C20_PhaseWeights ==
  (pc = "done" /\ result.kind = "ok")
    => /\ Len(advanced) = NumBatches + 2
       /\ advanced[1] = Whole(10)
       /\ advanced[Len(advanced)] = Whole(10)
       /\ \A b \in DOMAIN BatchAmounts :
            BatchAmounts[b] = BatchShare(Len(ValidBatch((b - 1) * batchSize)))
       /\ SeqSum(BatchAmounts) <= Whole(80)
       /\ NValid = Len(validNouveautes) /\ NValid > 0 => SeqSum(BatchAmounts) = Whole(80)

\* the position of the first edge of a page that carries the barcode
FirstEdge(edges, b) ==
  CHOOSE k \in DOMAIN edges :
    /\ edges[k].barcode = b
    /\ \A j \in DOMAIN edges : edges[j].barcode = b => k <= j

\* C21: during the index build an entry of the mapping is never replaced, and
\* a key entered by a page gets the entry of the first product of that page
\* that carries it.
C21_FirstWriterWins ==
  [][IndexPage =>
       \A b \in DOMAIN existingProducts' :
         IF b \in DOMAIN existingProducts
         THEN existingProducts'[b] = existingProducts[b]
         ELSE LET edges == ret.json.data.edges
              IN  existingProducts'[b].id = edges[FirstEdge(edges, b)].id]_vars

\* the index queries of a log of remote calls
IndexQueries(log) == SelectSeq(log, LAMBDA c : c.op = "query")

\* codes.slice(i, i + batchSize) of the b-th key batch (b counted from 0)
KeyBatch(b) == Slice(allCodes, b * keyBatchSize, keyBatchSize)

\* Math.ceil(codes.length / batchSize) of fetchExistingProducts
NumKeyBatches == CeilDiv(Len(allCodes), keyBatchSize)

\* the key batch an index query asks for
KeyBatchOf(q) == CHOOSE b \in 0..(NumKeyBatches - 1) : q.keys = KeyBatch(b)

\* C22: every index query asks for one of the ceil(K/250) consecutive key
\* batches of at most 250 keys; the first query asks for the first batch with
\* a null cursor; after a page that reports hasNextPage the next query asks
\* for the same batch with the endCursor of that page; after a page that
\* reports no next page the next query asks for the following batch with a
\* null cursor, or the build returns when that was the last batch.
C22_KeyBatchPagination ==
  /\ [](LET qs == IndexQueries(calls)
        IN  /\ \A j \in DOMAIN qs :
                 /\ Len(qs[j].keys) <= keyBatchSize
                 /\ \E b \in 0..(NumKeyBatches - 1) : qs[j].keys = KeyBatch(b)
            /\ qs # <<>> => qs[1].keys = KeyBatch(0) /\ qs[1].after = 0)
  /\ [][IndexPage =>
          LET data == ret.json.data
              last == calls[Len(calls)]
          IN  IF data.hasNextPage
              THEN /\ calls' = Append(calls, [last EXCEPT !.after = data.endCursor])
                   /\ pc' = "index"
              ELSE IF KeyBatchOf(last) + 1 < NumKeyBatches
              THEN /\ calls' = Append(calls, [op |-> "query",
                                              keys |-> KeyBatch(KeyBatchOf(last) + 1),
                                              after |-> 0])
                   /\ pc' = "index"
              ELSE /\ calls' = calls
                   /\ pc' = "batch"]_vars

\* C22 witness: the build has returned after two pages of the first key batch
\* and one page of the second
C22_Witness ==
  LET qs == IndexQueries(calls)
  IN  /\ pc = "batch"
      /\ Len(qs) = 3
      /\ qs[2].keys = qs[1].keys
      /\ qs[2].after = pageSize
      /\ qs[3].keys = KeyBatch(1)
      /\ qs[3].after = 0

\* the elements a step appended to a sequence
Appended(before, after) == SubSeq(after, Len(before) + 1, Len(after))

\* C23: the result loop of a batch issues one image upload for each item that
\* was sent as a create, came back without userErrors and has an image
\* reference, in item order, and none for any other item; an upload that
\* fails adds one ledger entry for its item and nothing else: the run goes on
\* to the inventory adjustment of the batch, which holds the change of every
\* item with the inventory item its sub-result returned.
C23_ImageBestEffort ==
  [][MutationResult =>
       LET subs     == call.req.subs
           results  == ret.json.data.results
           products == ValidBatch(batchI)
           due      == {k \in DOMAIN subs :
                          /\ subs[k].alias = "create"
                          /\ ~results[k].userErrors
                          /\ products[k].image_url # ""}
           added    == Appended(calls, calls')
           images   == SelectSeq(added, LAMBDA c : c.op = "image")
           entries  == SelectSeq(Appended(ledger, ledger'), LAMBDA e : e.kind = "image")
           changes  == added[Len(added)].changes
       IN  /\ Len(images) = Cardinality(due)
           /\ \A j \in DOMAIN images : images[j].item + 1 \in due
           /\ \A i, j \in DOMAIN images : i < j => images[i].item < images[j].item
           /\ Len(entries) <= Len(images)
           /\ \A j \in DOMAIN entries : \E k \in due : products[k].title = entries[j].of
           /\ pc' = "inventory"
           /\ added[Len(added)].op = "inventory"
           /\ Len(changes) = Len(products)
           /\ \A k \in DOMAIN results :
                ~results[k].userErrors
                  => /\ changes[k].inventoryItemId = results[k].inv
                     /\ changes[k].delta = products[k].stock]_vars

\* C23 witness: the upload of a created product's image has failed, and the
\* inventory adjustment of the batch is in flight with the change of that item
C23_Witness ==
  /\ pc = "inventory"
  /\ call.active
  /\ \E j \in DOMAIN calls : calls[j].op = "image"
  /\ \E j \in DOMAIN ledger : ledger[j].kind = "image"
  /\ \E k \in DOMAIN call.req.changes :
       /\ call.req.changes[k].inventoryItemId # Undefined
       /\ call.req.changes[k].delta = 10

\* the number of sub-operations sent in the combined mutations of a log before
\* its k-th combined mutation
SentBefore(log, k) ==
  LET ms == MutationCalls(log) IN SeqSum([j \in 1..(k - 1) |-> Len(ms[j].subs)])

\* the barcodes of the rows the sync engine receives that pass validateProduct
ValidBarcodes ==
  LET valid == SelectSeq(validNouveautes, validateProduct)
  IN  [k \in DOMAIN valid |-> valid[k].barcode]

\* C24: a remote call is sent only when no call is outstanding; every index
\* query precedes every other call of the run; the call before a combined
\* mutation that is not the first is the inventory adjustment of the batch
\* before it, and the calls after a combined mutation up to that adjustment are
\* the image uploads of its batch; the combined mutations carry the valid rows
\* in feed order.
C24_OneCallAtATime ==
  /\ [][(calls' # calls /\ calls' # <<>>) => (~call.active /\ ~call.awaiting)]_vars
  /\ [](/\ \A i, j \in DOMAIN calls :
              (i < j /\ calls[j].op = "query") => calls[i].op = "query"
        /\ \A j \in DOMAIN calls :
              calls[j].op = "mutation"
                => /\ j > 1 => \/ calls[j - 1].op = "query"
                               \/ /\ calls[j - 1].op = "inventory"
                                  /\ calls[j - 1].phase = "nouveautes"
                   /\ j < Len(calls) => calls[j + 1].op \in {"image", "inventory"}
        /\ \A j \in DOMAIN calls :
              (calls[j].op = "image" /\ j < Len(calls))
                => calls[j + 1].op \in {"image", "inventory"}
        /\ LET ms    == MutationCalls(calls)
               valid == ValidBarcodes
           IN  \A k \in DOMAIN ms :
                 LET from == SentBefore(calls, k)
                     upto == from + Len(ms[k].subs)
                 IN  /\ upto <= Len(valid)
                     /\ [j \in DOMAIN ms[k].subs |-> ms[k].subs[j].barcode]
                          = SubSeq(valid, from + 1, upto))

\* C24 witness: the combined mutation of the second batch is in flight after
\* an index query and the mutation and inventory adjustment of the first batch
C24_Witness ==
  /\ call.active
  /\ call.awaiting
  /\ call.req.op = "mutation"
  /\ Len(MutationCalls(calls)) = 2
  /\ calls[1].op = "query"
  /\ calls[Len(calls) - 1].op = "inventory"

\* C25: the index queries come first, and no inventory adjustment is issued
\* before the last combined create-or-update mutation of the run: in the log
\* of calls no combined mutation follows an inventory adjustment.
C25_PhasesInSequence ==
  \A i, j \in DOMAIN calls :
    i < j => /\ calls[j].op = "query" => calls[i].op = "query"
             /\ calls[i].op = "inventory" => calls[j].op # "mutation"

\* whether a returned combined mutation holds a sub-result with userErrors
SomeUserErrors(data) == \E k \in DOMAIN data.results : data.results[k].userErrors

\* C26: a response with userErrors is handled without a raise: the handler
\* appends at least one entry to the ledger and the run goes on, after a
\* combined mutation to the inventory adjustment of the whole batch, after the
\* inventory adjustment of a batch to the next turn of the batch loop, after
\* the delisted call to the end of the run.
C26_UserErrorsRecovered ==
  [][/\ (MutationResult /\ SomeUserErrors(ret.json.data))
          => /\ Len(ledger') > Len(ledger)
             /\ pc' = "inventory"
             /\ call'.active
             /\ call'.req.op = "inventory"
             /\ Len(call'.req.changes) = Len(call.req.subs)
             /\ result' = result
     /\ (InventoryResult /\ ret.json.data.userErrors)
          => /\ Len(ledger') > Len(ledger)
             /\ pc' = "batch"
             /\ batchI' = batchI + batchSize
             /\ result' = result
     /\ (EpuisesStockResult /\ ret.json.data.userErrors)
          => /\ Len(ledger') > Len(ledger)
             /\ pc' = "finish"
             /\ result' = result
     /\ (EpuisesDeleteResult /\ SomeUserErrors(ret.json.data))
          => /\ Len(ledger') > Len(ledger)
             /\ pc' = "finish"
             /\ result' = result]_vars

\* C26 witness: a run has completed with a summary although a sub-operation
\* of its combined mutation, the inventory adjustment of the batch and a
\* delete of the delisted phase came back with userErrors
C26_Witness ==
  /\ pc = "done"
  /\ result.kind = "ok"
  /\ \E j \in DOMAIN ledger : ledger[j].kind \in {"create", "update"}
  /\ \E j \in DOMAIN ledger : ledger[j].kind = "inventory"
  /\ \E j \in DOMAIN ledger : ledger[j].kind = "delete"
  /\ calls[Len(calls)].op = "delete"

\* the most per-item failures the step enabled in the current state can meet:
\* the rows of the batch that fail validation; the sub-results with
\* userErrors and the image uploads; the items of an inventory adjustment
\* that came back with userErrors; the delisted records the index lacks; the
\* rejected deletes
StepFailures ==
  IF pc = "batch" /\ batchI < Len(validNouveautes)
  THEN Len(Batch(batchI)) - Len(ValidBatch(batchI))
  ELSE IF pc = "batch"
  THEN Len(validEpuises) - Len(FoundEpuises(existingProducts))
  ELSE IF ~ret.present
  THEN 0
  ELSE IF pc = "mutation"
  THEN LET results == ret.json.data.results
       IN  Cardinality({k \in DOMAIN results : results[k].userErrors})
             + Cardinality(Uploads(existingProducts, ValidBatch(batchI), results))
  ELSE IF pc \in {"inventory", "zeroed"}
  THEN IF ret.json.data.userErrors THEN Len(call.req.changes) ELSE 0
  ELSE IF pc = "deleted"
  THEN LET results == ret.json.data.results
       IN  Cardinality({k \in DOMAIN results : results[k].userErrors})
  ELSE 0

\* C27: every step of a run leaves the ledger it found as a prefix of the
\* ledger it leaves, and appends at most one entry per per-item failure it
\* met.
C27_LedgerAppendOnly ==
  [][pc # "done"
       => /\ Len(ledger) <= Len(ledger')
          /\ SubSeq(ledger', 1, Len(ledger)) = ledger
          /\ Len(ledger') - Len(ledger) <= StepFailures]_vars

\* C28: the delisted records the sync engine receives have a code; the
\* products handed to createOrUpdateProductBatch have a barcode; and no
\* sub-operation or inventory change of a call is built from a record without
\* its business key.
C28_KeysPresent ==
  /\ \A k \in DOMAIN validEpuises : validEpuises[k].code # Undefined
  /\ pc \in {"mutation", "inventory"}
       => LET products == ValidBatch(batchI)
          IN  \A k \in DOMAIN products : products[k].barcode # Undefined
  /\ call.req.op \in {"mutation", "delete"}
       => \A k \in DOMAIN call.req.subs : call.req.subs[k].barcode # Undefined
  /\ (call.req.op = "inventory" /\ call.req.phase = "epuises")
       => \A k \in DOMAIN call.req.changes :
            validEpuises[call.req.changes[k].item + 1].code # Undefined

\* C28 witness: the delisted feed holds a record without code and the incoming
\* feed a row without barcode, and the delisted call is in flight with the one
\* record that has a code
C28_Witness ==
  /\ \E k \in DOMAIN feedE : feedE[k].code = Undefined
  /\ \E k \in DOMAIN feedN : feedN[k].barcode = Undefined /\ feedN[k].title # ""
  /\ call.active
  /\ call.req.op = "delete"
  /\ Len(call.req.subs) = 1
  /\ Len(feedE) = 2

\* the productCreate sub-operations of a log for a barcode, as pairs of the
\* position of the call and the position of the sub-operation
CreatesOf(log, b) ==
  {ck \in (DOMAIN log) \X (1..batchSize) :
     /\ log[ck[1]].op = "mutation"
     /\ ck[2] \in DOMAIN log[ck[1]].subs
     /\ log[ck[1]].subs[ck[2]].alias = "create"
     /\ log[ck[1]].subs[ck[2]].barcode = b}

\* C29: a run issues at most one productCreate per barcode.
C29_OneCreatePerBarcode ==
  \A k \in DOMAIN feedN : Cardinality(CreatesOf(calls, feedN[k].barcode)) <= 1

\* the progress accumulated by action's three amounts (20, 20, 10) and the
\* amounts the sync engine advanced, clamped at 100
Accumulated == Min(Whole(100), Whole(50) + SeqSum(advanced))

\* C30: the result of a run that completes reports a progress of exactly 100;
\* the result of a run that aborts reports the progress accumulated up to the
\* abort, which is at most 100.
C30_TerminalProgress ==
  /\ result.kind = "ok" => result.progress = Whole(100)
  /\ result.kind = "fatal"
       => /\ result.progress = Accumulated
          /\ result.progress = progress
          /\ result.progress <= Whole(100)

\* C30 witness: a run in which no incoming row was valid has completed after
\* remote calls; the amounts advanced add up to less than 100 and the result
\* reports 100
C30_Witness ==
  /\ pc = "done"
  /\ result.kind = "ok"
  /\ result.progress = Whole(100)
  /\ calls # <<>>
  /\ feedN # <<>>
  /\ Whole(50) + SeqSum(advanced) < Whole(100)

====
